---- MODULE Spec2Model ----
(***************************************************************************)
(* The RFID reader loop of backend/read.cpp: poll the MFRC522 for a card,  *)
(* render its UID as hexadecimal text, look the UID up in the users table, *)
(* UPDATE the row (tap_count + 1, last_scan_time = NOW()) or INSERT a new  *)
(* one, print a message, catch any sql::SQLException, delay, poll again.   *)
(*                                                                         *)
(* Text whose characters matter (the UID string, a username) is a sequence *)
(* of one-character strings.  The users table is a function from UID       *)
(* strings to a row or NoRow.                                              *)
(***************************************************************************)
EXTENDS Integers, Sequences, FiniteSets, TLC

\* ------------------------------------------------------------------ bounds

\* Card detections (successful PICC_ReadCardSerial) in one run, all readers.
MaxTaps == 4

\* Length in bytes of the UIDs the formatting is checked on.
MaxUidLen == 2

\* ------------------------------------------------------- program constants

\* Largest value of `int tapCount` (32-bit int) and of a MySQL INT column.
INT_MAX == 2147483647

INT_MIN == -INT_MAX - 1

\* setw(2): the field width of one rendered byte.
FieldWidth == 2

\* std::hex: the base of the rendering.
HexBase == 16

\* ------------------------------------------------------------ the readers

\* One process running main().  Spec runs "r1" alone; SpecShared runs both
\* against the same users table.
Readers == {"r1", "r2"}

\* mfrc.uid after PICC_ReadCardSerial: the cards presented to the reader in
\* Spec.  <<1, 16>> and <<17, 0>> differ only in where the digits fall.
Cards == {<<1, 16>>, <<17, 0>>, <<171>>}

\* The card both readers see in SpecShared.
SharedCards == {<<171>>}

\* Byte values the formatting is checked on: 0, one-digit values, the
\* letter digits, both ends of the range.
ByteSamples == {0, 9, 10, 15, 16, 171, 240, 255}

RECURSIVE BytesOfLen(_)
BytesOfLen(n) ==
    IF n = 0 THEN {<<>>}
    ELSE {Append(s, b) : s \in BytesOfLen(n - 1), b \in ByteSamples}

\* The UIDs SpecHex formats.
SampleUids == UNION {BytesOfLen(n) : n \in 1..MaxUidLen}

\* ------------------------------------------------------- UID -> hex string

\* One digit as operator<< writes it under std::hex | std::uppercase.
UpperDigit(d) ==
    CASE d = 0 -> "0" [] d = 1 -> "1" [] d = 2 -> "2" [] d = 3 -> "3"
      [] d = 4 -> "4" [] d = 5 -> "5" [] d = 6 -> "6" [] d = 7 -> "7"
      [] d = 8 -> "8" [] d = 9 -> "9" [] d = 10 -> "A" [] d = 11 -> "B"
      [] d = 12 -> "C" [] d = 13 -> "D" [] d = 14 -> "E" [] d = 15 -> "F"

\* The digits of a non-negative int in base 16, most significant first, no
\* leading zeros ("0" for 0).
RECURSIVE HexDigits(_)
HexDigits(n) ==
    IF n < HexBase THEN <<UpperDigit(n)>>
    ELSE Append(HexDigits(n \div HexBase), UpperDigit(n % HexBase))

\* setw(w) << setfill(fill): pad on the left up to the width, never cut.
RECURSIVE PadLeft(_, _, _)
PadLeft(s, w, fill) ==
    IF Len(s) < w THEN PadLeft(<<fill>> \o s, w, fill) ELSE s

NoPadFormatByte(b) == HexDigits(b)

\* ss << hex << uppercase << setw(2) << setfill('0') << static_cast<int>(b)
FormatByte(b) == PadLeft(HexDigits(b), FieldWidth, "0")

\* The for loop over mfrc.uid.uidByte: the separator written for i > 0 is
\* the empty string.
RECURSIVE UidToHex(_)
UidToHex(bytes) ==
    IF bytes = <<>> THEN <<>>
    ELSE UidToHex(SubSeq(bytes, 1, Len(bytes) - 1))
             \o <<>> \o FormatByte(bytes[Len(bytes)])

\* ------------------------------------------------------------- int helpers

\* a % b of C++ for b > 0: the remainder has the sign of a.
CRem(a, b) ==
    IF a >= 0 THEN a % b
    ELSE -((((-(a + 1)) % b) + 1) % b)

\* res->getInt("tap_count") + 1 in `int`: the set of values tapCount can
\* take.  At INT_MAX the addition is a signed overflow, undefined in C++;
\* the value is passed on unexamined, so what a build leaves in tapCount is
\* the result of the machine's two's-complement add.
IntInc(v) == IF v < INT_MAX THEN {v + 1} ELSE {INT_MIN}

\* --------------------------------------------------------- the users table

NoRow == [absent |-> TRUE]

\* A username column that is NULL (the INSERT of the reader sets none).
NullStr == <<"NULL">>

\* res->getString("username"): NULL reads as the empty string.
GetString(v) == IF v = NullStr THEN <<>> ELSE v

\* The UID strings of every card a reader can see.
Keys == {UidToHex(c) : c \in Cards \cup SharedCards}

\* tap_count of the rows that are in the table before the reader starts.
InitCounts == {1, INT_MAX - 1}

InitRows ==
    {NoRow} \cup
    {[tap_count |-> c, last_scan_time |-> 0, username |-> <<"a", "l">>] :
        c \in InitCounts}

\* One line written to std::cout or std::cerr.
Line(text, arg) == [text |-> text, arg |-> arg]

Greetings == {"Hello ", "Goodbye "}

InsertedMsg == "UID inserted into database."

SqlErrMsg == "SQL Exception: "

\* ------------------------------------------------------------------ state

VARIABLES
    table,        \* the users table: UID string -> row or NoRow
    now,          \* the clock NOW() reads, in seconds
    pc,           \* each reader's position in main()
    uid,          \* mfrc.uid: the bytes PICC_ReadCardSerial left
    uidStr,       \* std::string uidStr
    username,     \* std::string username
    tapCount,     \* int tapCount
    printed,      \* the lines this iteration wrote, in order
    stmts,        \* the SQL statements this iteration ran, with their outcome
    taps,         \* card detections so far
    lastCheck,    \* outcome of the latest presence check: none, absent, card
    delayedSince, \* delay() ran since the latest presence check
    gap,          \* at the latest presence check: the check before it and
                  \* whether delay() ran in between
    tableAtTap,   \* the table as it was when the card was detected
    lastGreeting, \* per UID: the latest greeting printed
    prevGreeting, \* per UID: the greeting printed before the latest
    firstGreeting,\* per UID: the first greeting printed
    owed,         \* per UID: the greeting a failed tap did not print
    paid,         \* per reader: owed[uid] as it was when the greeting printed
    okWrites,     \* per UID: UPDATEs and INSERTs that returned normally
    inserts       \* per UID: INSERTs that returned normally

vars == <<table, now, pc, uid, uidStr, username, tapCount, printed, stmts,
          taps, lastCheck, delayedSince, gap, tableAtTap, lastGreeting,
          prevGreeting, firstGreeting, owed, paid, okWrites, inserts>>

locals == <<uid, uidStr, username, tapCount>>

pollGhosts == <<lastCheck, delayedSince, gap>>

greetGhosts == <<lastGreeting, prevGreeting, firstGreeting, owed, paid>>

writeGhosts == <<okWrites, inserts>>

SwappedGreetingFor(count) ==
    IF CRem(count, 2) = 0 THEN "Hello " ELSE "Goodbye "

\* tapCount % 2 == 0 ? "Goodbye " : "Hello "
GreetingFor(count) == IF CRem(count, 2) = 0 THEN "Goodbye " ELSE "Hello "

\* The greeting the tap of an existing row prints when nothing throws.
GreetingDue(row) == GreetingFor(CHOOSE t \in IntInc(row.tap_count) : TRUE)

\* The state once PCD_Init, connect and setSchema have returned, with the
\* given table.
InitWith(t) ==
    /\ table = t
    /\ now = 1
    /\ pc = [p \in Readers |-> "poll"]
    /\ uid = [p \in Readers |-> <<>>]
    /\ uidStr = [p \in Readers |-> <<>>]
    /\ username = [p \in Readers |-> <<>>]
    /\ tapCount = [p \in Readers |-> 0]
    /\ printed = [p \in Readers |-> <<>>]
    /\ stmts = [p \in Readers |-> <<>>]
    /\ taps = 0
    /\ lastCheck = [p \in Readers |-> "none"]
    /\ delayedSince = [p \in Readers |-> FALSE]
    /\ gap = [p \in Readers |-> [prev |-> "none", delayed |-> FALSE]]
    /\ tableAtTap = [p \in Readers |-> t]
    /\ lastGreeting = [k \in Keys |-> "none"]
    /\ prevGreeting = [k \in Keys |-> "none"]
    /\ firstGreeting = [k \in Keys |-> "none"]
    /\ owed = [k \in Keys |-> "none"]
    /\ paid = [p \in Readers |-> "none"]
    /\ okWrites = [k \in Keys |-> 0]
    /\ inserts = [k \in Keys |-> 0]

Init == \E t \in [Keys -> InitRows] : InitWith(t)

\* ---------------------------------------------------------------- actions

\* What every presence check records about the one before it.
CheckedAs(p, outcome) ==
    /\ gap' = [gap EXCEPT ![p] = [prev |-> lastCheck[p],
                                  delayed |-> delayedSince[p]]]
    /\ lastCheck' = [lastCheck EXCEPT ![p] = outcome]
    /\ delayedSince' = [delayedSince EXCEPT ![p] = FALSE]

\* if (!PICC_IsNewCardPresent() || !PICC_ReadCardSerial()) continue;
\* with no card in the field, or a card whose serial cannot be read.
PollNoCard(p) ==
    /\ pc[p] = "poll"
    /\ CheckedAs(p, "absent")
    /\ UNCHANGED <<table, now, pc, locals, printed, stmts, taps, tableAtTap,
                   greetGhosts, writeGhosts>>

\* The same check with a card present and read: mfrc.uid holds its bytes.
PollCard(p, cards) ==
    /\ pc[p] = "poll"
    /\ taps < MaxTaps
    /\ \E c \in cards : uid' = [uid EXCEPT ![p] = c]
    /\ CheckedAs(p, "card")
    /\ taps' = taps + 1
    /\ printed' = [printed EXCEPT ![p] = <<>>]
    /\ stmts' = [stmts EXCEPT ![p] = <<>>]
    /\ tableAtTap' = [tableAtTap EXCEPT ![p] = table]
    /\ paid' = [paid EXCEPT ![p] = "none"]
    /\ pc' = [pc EXCEPT ![p] = "format"]
    /\ UNCHANGED <<table, now, uidStr, username, tapCount, lastGreeting,
                   prevGreeting, firstGreeting, owed, writeGhosts>>

\* The stringstream loop, uidStr = ss.str(), and the "UID: " line.
FormatUid(p) ==
    /\ pc[p] = "format"
    /\ uidStr' = [uidStr EXCEPT ![p] = UidToHex(uid[p])]
    /\ printed' = [printed EXCEPT ![p] = Append(@, Line("UID: ", uidStr'[p]))]
    /\ pc' = [pc EXCEPT ![p] = "select"]
    /\ UNCHANGED <<table, now, uid, username, tapCount, stmts, taps,
                   pollGhosts, tableAtTap, greetGhosts, writeGhosts>>

\* The SELECT returns a row: res->next() is true, username and tapCount
\* are read from it.
SelectFound(p) ==
    /\ pc[p] = "select"
    /\ table[uidStr[p]] # NoRow
    /\ username' = [username EXCEPT ![p] = GetString(table[uidStr[p]].username)]
    /\ \E t \in IntInc(table[uidStr[p]].tap_count) :
           tapCount' = [tapCount EXCEPT ![p] = t]
    /\ stmts' = [stmts EXCEPT ![p] = Append(@, "SELECT")]
    /\ pc' = [pc EXCEPT ![p] = "update"]
    /\ UNCHANGED <<table, now, uid, uidStr, printed, taps, pollGhosts,
                   tableAtTap, greetGhosts, writeGhosts>>

\* The SELECT returns no row: res->next() is false.
SelectMissing(p) ==
    /\ pc[p] = "select"
    /\ table[uidStr[p]] = NoRow
    /\ stmts' = [stmts EXCEPT ![p] = Append(@, "SELECT")]
    /\ pc' = [pc EXCEPT ![p] = "insert"]
    /\ UNCHANGED <<table, now, locals, printed, taps, pollGhosts, tableAtTap,
                   greetGhosts, writeGhosts>>

\* A statement throws sql::SQLException: control goes to the catch clause
\* and the statement has changed nothing.
ThrowsLeaving(p, at, stmt, t) ==
    /\ pc[p] = at
    /\ table' = t
    /\ stmts' = [stmts EXCEPT ![p] = Append(@, stmt)]
    /\ pc' = [pc EXCEPT ![p] = "catch"]
    /\ UNCHANGED <<now, locals, printed, taps, pollGhosts, tableAtTap,
                   greetGhosts, writeGhosts>>

Throws(p, at, stmt) == ThrowsLeaving(p, at, stmt, table)

\* prepareStatement, setString, executeQuery, next, getString or getInt
\* throws.
SelectThrows(p) == Throws(p, "select", "SELECT threw")

\* UPDATE users SET tap_count = ?, last_scan_time = NOW() WHERE UID = ?
\* returns normally: every row of that UID (none, if it is gone) is set.
UpdateReturns(p, t) ==
    /\ pc[p] = "update"
    /\ table' = t
    /\ stmts' = [stmts EXCEPT ![p] = Append(@, "UPDATE")]
    /\ okWrites' = [okWrites EXCEPT ![uidStr[p]] = @ + 1]
    /\ pc' = [pc EXCEPT ![p] = "greet"]
    /\ UNCHANGED <<now, locals, printed, taps, pollGhosts, tableAtTap,
                   greetGhosts, inserts>>

\* The table after SET tap_count = count, last_scan_time = NOW() on the
\* rows whose UID is in keys.
SetRows(keys, count) ==
    [k \in Keys |->
        IF k \in keys /\ table[k] # NoRow
        THEN [table[k] EXCEPT !.tap_count = count, !.last_scan_time = now]
        ELSE table[k]]

\* SET last_scan_time = NOW() alone.
TouchRows(keys) ==
    [k \in Keys |->
        IF k \in keys /\ table[k] # NoRow
        THEN [table[k] EXCEPT !.last_scan_time = now]
        ELSE table[k]]

UpdateKeepsCount(p) == UpdateReturns(p, TouchRows({uidStr[p]}))

UpdateAllRows(p) == UpdateReturns(p, SetRows(Keys, tapCount[p]))

UpdateOk(p) == UpdateReturns(p, SetRows({uidStr[p]}, tapCount[p]))

UpdateThrowsAfterWrite(p) ==
    ThrowsLeaving(p, "update", "UPDATE threw", SetRows({uidStr[p]}, tapCount[p]))

UpdateThrows(p) == Throws(p, "update", "UPDATE threw")

\* if (tapCount % 2 == 0) "Goodbye " << username else "Hello " << username
Greet(p) ==
    /\ pc[p] = "greet"
    /\ LET g == GreetingFor(tapCount[p])
           k == uidStr[p]
       IN /\ printed' = [printed EXCEPT ![p] = Append(@, Line(g, username[p]))]
          /\ lastGreeting' = [lastGreeting EXCEPT ![k] = g]
          /\ prevGreeting' = [prevGreeting EXCEPT ![k] = lastGreeting[k]]
          /\ firstGreeting' = [firstGreeting EXCEPT ![k] =
                                  IF @ = "none" THEN g ELSE @]
          /\ paid' = [paid EXCEPT ![p] = owed[k]]
          /\ owed' = [owed EXCEPT ![k] = "none"]
    /\ pc' = [pc EXCEPT ![p] = "delay"]
    /\ UNCHANGED <<table, now, locals, stmts, taps, pollGhosts, tableAtTap,
                   writeGhosts>>

\* INSERT INTO users (UID, tap_count, last_scan_time) VALUES (?, 1, NOW())
\* returns normally.  UID is taken to be a unique key of users: with a row
\* of that UID in the table the statement throws instead.
InsertReturns(p, count) ==
    /\ pc[p] = "insert"
    /\ table[uidStr[p]] = NoRow
    /\ table' = [table EXCEPT ![uidStr[p]] =
                    [tap_count |-> count, last_scan_time |-> now,
                     username |-> NullStr]]
    /\ stmts' = [stmts EXCEPT ![p] = Append(@, "INSERT")]
    /\ okWrites' = [okWrites EXCEPT ![uidStr[p]] = @ + 1]
    /\ inserts' = [inserts EXCEPT ![uidStr[p]] = @ + 1]
    /\ pc' = [pc EXCEPT ![p] = "report"]
    /\ UNCHANGED <<now, locals, printed, taps, pollGhosts, tableAtTap,
                   greetGhosts>>

InsertTapZero(p) == InsertReturns(p, 0)

InsertOk(p) == InsertReturns(p, 1)

InsertThrows(p) == Throws(p, "insert", "INSERT threw")

\* std::cout << "UID inserted into database."
ReportInsert(p) ==
    /\ pc[p] = "report"
    /\ printed' = [printed EXCEPT ![p] = Append(@, Line(InsertedMsg, <<>>))]
    /\ pc' = [pc EXCEPT ![p] = "delay"]
    /\ UNCHANGED <<table, now, locals, stmts, taps, pollGhosts, tableAtTap,
                   greetGhosts, writeGhosts>>

\* catch (sql::SQLException &e) { std::cerr << "SQL Exception: " ... }
CatchTo(p, target) ==
    /\ pc[p] = "catch"
    /\ printed' = [printed EXCEPT ![p] = Append(@, Line(SqlErrMsg, <<>>))]
    /\ owed' = [owed EXCEPT ![uidStr[p]] =
                   IF table[uidStr[p]] = NoRow THEN @
                   ELSE GreetingDue(table[uidStr[p]])]
    /\ pc' = [pc EXCEPT ![p] = target]
    /\ UNCHANGED <<table, now, locals, stmts, taps, pollGhosts, tableAtTap,
                   lastGreeting, prevGreeting, firstGreeting, paid,
                   writeGhosts>>

CatchRethrows(p) == CatchTo(p, "done")

CatchContinues(p) == CatchTo(p, "poll")

Catch(p) == CatchTo(p, "delay")

\* delay(1000), then back to the head of while (1).  The locals of the loop
\* body go out of scope.
Delay(p) ==
    /\ pc[p] = "delay"
    /\ now' = now + 1
    /\ delayedSince' = [delayedSince EXCEPT ![p] = TRUE]
    /\ username' = [username EXCEPT ![p] = <<>>]
    /\ tapCount' = [tapCount EXCEPT ![p] = 0]
    /\ pc' = [pc EXCEPT ![p] = "poll"]
    /\ UNCHANGED <<table, uid, uidStr, printed, stmts, taps, lastCheck, gap,
                   tableAtTap, greetGhosts, writeGhosts>>

\* One step of one reader.
Step(p, cards) ==
    \/ PollNoCard(p)
    \/ PollCard(p, cards)
    \/ FormatUid(p)
    \/ SelectFound(p)
    \/ SelectMissing(p)
    \/ SelectThrows(p)
    \/ UpdateOk(p)
    \/ UpdateThrows(p)
    \/ Greet(p)
    \/ InsertOk(p)
    \/ InsertThrows(p)
    \/ ReportInsert(p)
    \/ Catch(p)
    \/ Delay(p)

\* One reader, alone on the database.
Next == Step("r1", Cards)

Spec == Init /\ [][Next]_vars

\* Two readers on one database that starts empty.
InitShared == InitWith([k \in Keys |-> NoRow])

NextShared == \E p \in Readers : Step(p, SharedCards)

SpecShared == InitShared /\ [][NextShared]_vars

\* The detection and the formatting alone, on every sample UID.
NextHex == PollCard("r1", SampleUids) \/ FormatUid("r1")

SpecHex == InitShared /\ [][NextHex]_vars

\* ----------------------------------------------------------------- claims

\* The reader that Spec and SpecHex run.
Alone == {"r1"}

\* Parity as the claims state it, on the integers.
IsOdd(n) == n % 2 = 1

Last(seq) == seq[Len(seq)]

\* The texts of the lines reader p wrote in its current (or latest) iteration.
Texts(p) == {printed[p][i].text : i \in 1..Len(printed[p])}

Ran(p) == {stmts[p][i] : i \in 1..Len(stmts[p])}

Threw(p) == Ran(p) \cap {"SELECT threw", "UPDATE threw", "INSERT threw"} # {}

\* Reader p has processed a card and stands before delay(1000).
Processed(p) == pc[p] = "delay"

\* C1: when a row of the UID exists, the tap sets its tap_count to exactly
\* the previous stored value plus 1 and last_scan_time to the current time,
\* for every previous value of tap_count.  (Stated right after the UPDATE
\* has returned; new - old is taken only when new > old, so the
\* subtraction itself stays within 32 bits.)
C1_UpdateAddsOne ==
    \A p \in Alone :
        pc[p] = "greet" =>
            LET old == tableAtTap[p][uidStr[p]]
                new == table[uidStr[p]]
            IN /\ new.tap_count > old.tap_count
               /\ new.tap_count - old.tap_count = 1
               /\ new.last_scan_time = now

\* C2: when no row of the UID exists, the tap inserts exactly one row, with
\* tap_count = 1 and last_scan_time = the current time, and a later
\* detection of that UID never takes the 'absent' branch again.
C2_InsertNewRow ==
    /\ \A k \in Keys : inserts[k] <= 1
    /\ \A p \in Alone :
        /\ pc[p] = "report" =>
              /\ tableAtTap[p][uidStr[p]] = NoRow
              /\ table[uidStr[p]] = [tap_count |-> 1, last_scan_time |-> now,
                                     username |-> NullStr]
              /\ inserts[uidStr[p]] = 1
        /\ pc[p] = "insert" =>
              /\ inserts[uidStr[p]] = 0
              /\ table[uidStr[p]] = NoRow

\* C2 witness: a UID the reader inserted is detected again and the lookup
\* finds its row.
C2_Witness ==
    /\ pc["r1"] = "update"
    /\ inserts[uidStr["r1"]] = 1
    /\ table[uidStr["r1"]].tap_count = 1

\* C3 as claimed: every tap that raises no SQL exception prints a greeting,
\* 'Hello' when the cumulative count after the tap is odd and 'Goodbye' when
\* it is even, the first tap (count 1) included.
C3_EveryTapGreets ==
    \A p \in Alone :
        (Processed(p) /\ ~Threw(p)) =>
            Last(printed[p]).text =
                IF IsOdd(table[uidStr[p]].tap_count) THEN "Hello "
                ELSE "Goodbye "

\* C3 amended: a tap of a UID whose row exists and whose statements succeed
\* prints 'Hello' when the count it stored is odd and 'Goodbye' when it is
\* even; the first tap of a UID (no row yet) stores count 1 and prints
\* 'UID inserted into database.' and no greeting, so the greetings of a UID
\* the reader inserted start with 'Goodbye'.
C3_GreetsAfterFirstTap ==
    /\ \A p \in Alone :
        (Processed(p) /\ ~Threw(p)) =>
            IF tableAtTap[p][uidStr[p]] = NoRow
            THEN /\ Last(printed[p]).text = InsertedMsg
                 /\ Texts(p) \cap Greetings = {}
                 /\ table[uidStr[p]].tap_count = 1
            ELSE Last(printed[p]).text =
                     IF IsOdd(table[uidStr[p]].tap_count) THEN "Hello "
                     ELSE "Goodbye "
    /\ \A k \in Keys :
        (inserts[k] = 1 /\ firstGreeting[k] # "none") =>
            firstGreeting[k] = "Goodbye "

\* C3 witness: a UID the reader inserted has been greeted twice since:
\* 'Goodbye' first, 'Hello' after it.
C3_Witness ==
    \E k \in Keys :
        /\ inserts[k] = 1
        /\ firstGreeting[k] = "Goodbye "
        /\ prevGreeting[k] = "Goodbye "
        /\ lastGreeting[k] = "Hello "

\* C4: a tap of an existing UID whose UPDATE succeeds prints exactly one
\* greeting, 'Goodbye <username>' if the incremented count that was written
\* is even and 'Hello <username>' otherwise; two consecutive greetings of
\* one UID are never the same.
C4_GreetingByWrittenParity ==
    /\ \A p \in Alone :
        (Processed(p) /\ "UPDATE" \in Ran(p)) =>
            LET row == table[uidStr[p]]
                greets == {i \in 1..Len(printed[p]) :
                              printed[p][i].text \in Greetings}
            IN /\ Cardinality(greets) = 1
               /\ row.tap_count = tapCount[p]
               /\ row.tap_count # tableAtTap[p][uidStr[p]].tap_count
               /\ Last(printed[p]) =
                      Line(IF IsOdd(row.tap_count) THEN "Hello "
                           ELSE "Goodbye ",
                           GetString(row.username))
    /\ \A k \in Keys :
        lastGreeting[k] # "none" => prevGreeting[k] # lastGreeting[k]

\* C4 witness: two consecutive successful taps of a UID with a row, the
\* second just greeted.
C4_Witness ==
    /\ Processed("r1")
    /\ "UPDATE" \in Ran("r1")
    /\ prevGreeting[uidStr["r1"]] = "Hello "
    /\ lastGreeting[uidStr["r1"]] = "Goodbye "
    /\ username["r1"] = <<"a", "l">>

LoopPcs ==
    {"poll", "format", "select", "update", "greet", "insert", "report",
     "catch", "delay"}

\* C5: an SQL exception of the SELECT, the UPDATE or the INSERT is caught
\* and logged and the reader goes on to the delay and the next poll; no
\* reader ever stands outside the loop.
C5_LoopNeverLeft ==
    \A p \in Alone :
        /\ pc[p] \in LoopPcs
        /\ Threw(p) => pc[p] \in {"catch", "delay", "poll"}
        /\ (Threw(p) /\ pc[p] # "catch") => Last(printed[p]).text = SqlErrMsg

\* C5 witness: after an exception of the INSERT the reader has run a
\* presence check again.
C5_Witness ==
    /\ pc["r1"] = "poll"
    /\ "INSERT threw" \in Ran("r1")
    /\ lastCheck["r1"] = "absent"

\* C6 as claimed: between any two consecutive presence checks the delay
\* step runs.
C6_DelayBetweenChecks ==
    \A p \in Alone : gap[p].prev # "none" => gap[p].delayed

\* C6 amended: the delay step runs between a presence check that detected a
\* card and the next check, with or without an SQL exception; after a check
\* that found no card the next check follows with no delay.
C6_DelayAfterCard ==
    \A p \in Alone :
        /\ gap[p].prev = "card" => gap[p].delayed
        /\ gap[p].prev = "absent" => ~gap[p].delayed

\* C6 witness: the check after a tap whose UPDATE threw, the delay run in
\* between.
C6_Witness ==
    /\ lastCheck["r1"] = "absent"
    /\ gap["r1"] = [prev |-> "card", delayed |-> TRUE]
    /\ "UPDATE threw" \in Ran("r1")

UpperHexChars ==
    {"0", "1", "2", "3", "4", "5", "6", "7", "8", "9",
     "A", "B", "C", "D", "E", "F"}

\* The value of one hexadecimal digit.
HexVal(ch) ==
    CASE ch = "0" -> 0 [] ch = "1" -> 1 [] ch = "2" -> 2 [] ch = "3" -> 3
      [] ch = "4" -> 4 [] ch = "5" -> 5 [] ch = "6" -> 6 [] ch = "7" -> 7
      [] ch = "8" -> 8 [] ch = "9" -> 9 [] ch = "A" -> 10 [] ch = "B" -> 11
      [] ch = "C" -> 12 [] ch = "D" -> 13 [] ch = "E" -> 14 [] ch = "F" -> 15

\* C7: the UID string is the bytes in order, each as exactly two uppercase
\* hexadecimal digits, with nothing in between: its length is twice the
\* number of bytes, and no other UID of that length gives the same string.
C7_UidHexString ==
    \A p \in Alone :
        pc[p] = "select" =>
            /\ Len(uidStr[p]) = 2 * Len(uid[p])
            /\ \A i \in 1..Len(uid[p]) :
                  /\ uidStr[p][2 * i - 1] \in UpperHexChars
                  /\ uidStr[p][2 * i] \in UpperHexChars
                  /\ 16 * HexVal(uidStr[p][2 * i - 1]) + HexVal(uidStr[p][2 * i])
                         = uid[p][i]
            /\ \A other \in BytesOfLen(Len(uid[p])) :
                  other # uid[p] => UidToHex(other) # uidStr[p]

\* C7 witness: a two-byte UID with a one-digit byte and letter digits.
C7_Witness ==
    /\ pc["r1"] = "select"
    /\ uid["r1"] = <<10, 255>>
    /\ uidStr["r1"] = <<"0", "A", "F", "F">>

\* C8: a detected card causes one lookup, then at most one write: an UPDATE
\* if the lookup found a row, an INSERT if not.  Rows of other UIDs are as
\* they were when the card was detected, and no row is deleted.
C8_OneLookupOneWrite ==
    \A p \in Alone :
        /\ stmts[p] \in {<<>>, <<"SELECT">>, <<"SELECT threw">>,
                         <<"SELECT", "UPDATE">>, <<"SELECT", "UPDATE threw">>,
                         <<"SELECT", "INSERT">>, <<"SELECT", "INSERT threw">>}
        /\ pc[p] \in {"greet", "report", "catch", "delay"} => Len(stmts[p]) >= 1
        /\ (Ran(p) \cap {"UPDATE", "UPDATE threw"} # {})
               => tableAtTap[p][uidStr[p]] # NoRow
        /\ (Ran(p) \cap {"INSERT", "INSERT threw"} # {})
               => tableAtTap[p][uidStr[p]] = NoRow
        /\ \A k \in Keys :
              /\ k # uidStr[p] => table[k] = tableAtTap[p][k]
              /\ tableAtTap[p][k] # NoRow => table[k] # NoRow

\* C8 witness: an UPDATE has run while a row of another UID is in the table.
C8_Witness ==
    /\ Processed("r1")
    /\ stmts["r1"] = <<"SELECT", "UPDATE">>
    /\ \E k \in Keys : k # uidStr["r1"] /\ table[k] # NoRow

C10_NoLostUpdate ==
    (\A p \in Readers : pc[p] = "poll") =>
        \A k \in Keys :
            /\ inserts[k] <= 1
            /\ IF table[k] = NoRow THEN okWrites[k] = 0
               ELSE table[k].tap_count = okWrites[k]

====
